---- MODULE Spec2Model ----
(***************************************************************************)
(* bfoc: brainfuck optimizing compiler (src/src/bfoc.c).                   *)
(*                                                                         *)
(* The model follows main from its sanitizing read loop through            *)
(* generate_c_source to the hand-over to gcc.  One action stands for one   *)
(* iteration of the read loop, one iteration of the code generator's       *)
(* for loop (one case of its switch), or one of main's final steps.        *)
(***************************************************************************)
EXTENDS Integers, Sequences, FiniteSets

(* ---------------- bounds of the model ---------------- *)

\* longest input file over the whole byte alphabet
MaxLen == 4
\* longest input file made of brackets only
MaxBrackets == 5
\* longest input file made of '[' only
MaxDeep == 28

(* ---------------- program constants ---------------- *)

PLUS == 43
MINUS == 45
RIGHT == 62
LEFT == 60
LBRACKET == 91
RBRACKET == 93
DOT == 46
COMMA == 44
\* the terminator main stores after the last command
NUL == 0
\* <stdio.h> EOF, what fgetc returns at the end of the file
EOF == -1
\* int label_locations[26]
LabelSlots == 26
Commands == {PLUS, MINUS, RIGHT, LEFT, LBRACKET, RBRACKET, DOT, COMMA}

\* the bytes an input file is made of in this model: the commands, a
\* space (no command, below 128) and 0xFF (the byte that converts to
\* (char) -1 where char is signed)
Bytes == Commands \cup {32, 255}

VARIABLES
    charSigned,       \* the build: whether plain char is signed
    file,             \* the bytes of the input file
    rpos,             \* how many bytes fgetc has returned
    at_eof,           \* fgetc has returned EOF
    input_buf,        \* main's input_buf[0 .. input_len-1]
    pc,               \* "read", "gen", "returned", "exit"
    i,                \* generate_c_source: scan index
    label_count,
    label_locations,
    label_stack,
    oob,              \* where the write to label_locations[26] landed
    out,              \* statements generate_c_source wrote to output_file
    ret,              \* generate_c_source's return value: "none" before, then "0" or "-1"
    err,              \* the error generate_c_source printed
    errpos,           \* the location it printed with it
    terminated,       \* main wrote the terminator boilerplate
    gcc_run,          \* main ran gcc on the intermediate file
    exit_status       \* "-1", gcc's "compiled" or "compile_failed", or "killed"

vars == <<charSigned, file, rpos, at_eof, input_buf, pc, i, label_count,
          label_locations, label_stack, oob, out, ret, err, errpos,
          terminated, gcc_run, exit_status>>

readVars == <<file, rpos, at_eof, input_buf>>
genVars == <<i, label_count, label_locations, label_stack, oob, out, ret, err, errpos>>
mainVars == <<terminated, gcc_run, exit_status>>

(* ---------------- helpers ---------------- *)

SeqsUpTo(S, n) == UNION {[1..k -> S] : k \in 0..n}

Repeat(c, n) == [k \in 1..n |-> c]

\* char c = fgetc(input_file): the int fgetc returns, converted to char
ToChar(r) ==
    IF charSigned THEN ((r + 128) % 256) - 128 ELSE r % 256

\* input_buf[k] in C (0-based); input_buf[input_len] is the terminator
CharAt(buf, k) == IF k < Len(buf) THEN buf[k + 1] ELSE NUL

\* a statement written to output_file
Stmt(op, arg) == [op |-> op, arg |-> arg]

(* ---------------- initial state ---------------- *)

InputFiles ==
    SeqsUpTo(Bytes, MaxLen)
        \cup SeqsUpTo({LBRACKET, RBRACKET}, MaxBrackets)
        \cup {Repeat(LBRACKET, n) : n \in LabelSlots..MaxDeep}

\* main at the head of its read loop: input_len = 0
InitMain ==
    /\ charSigned \in BOOLEAN
    /\ file \in InputFiles
    /\ rpos = 0
    /\ at_eof = FALSE
    /\ input_buf = <<>>
    /\ pc = "read"
    /\ terminated = FALSE
    /\ gcc_run = FALSE
    /\ exit_status = "none"

\* generate_c_source's locals as their initializers leave them; the word
\* after the array is index 26.  int label_locations[26] = {-1} sets the
\* first element to -1 and the others to 0.
InitGen ==
    /\ i = 0
    /\ label_count = 0
    /\ label_locations = [k \in 0..LabelSlots |-> IF k = 0 THEN -1 ELSE 0]
    /\ label_stack = 0
    /\ oob = "none"
    /\ out = <<>>
    /\ ret = "none"
    /\ err = "none"
    /\ errpos = -1

Init == InitMain /\ InitGen

(* ---------------- main: the sanitizing read loop ---------------- *)

\* what the next fgetc(input_file) returns
Fgetc == IF at_eof \/ rpos >= Len(file) THEN EOF ELSE file[rpos + 1]

\* the stream after that fgetc
Advance ==
    /\ rpos' = IF Fgetc = EOF THEN rpos ELSE rpos + 1
    /\ at_eof' = (Fgetc = EOF)
    /\ file' = file

\* c is one of the eight cases: input_buf[input_len++] = c
ReadCommand ==
    /\ pc = "read"
    /\ ToChar(Fgetc) /= EOF
    /\ ToChar(Fgetc) \in Commands
    /\ Advance
    /\ input_buf' = Append(input_buf, ToChar(Fgetc))
    /\ UNCHANGED <<charSigned, pc>>
    /\ UNCHANGED genVars
    /\ UNCHANGED mainVars

\* default: continue.  Where char is unsigned (char) EOF is 255, which is
\* neither EOF nor a command: at the end of the file the loop takes this
\* branch again and again, and main never leaves it.
ReadIgnored ==
    /\ pc = "read"
    /\ ToChar(Fgetc) /= EOF
    /\ ToChar(Fgetc) \notin Commands
    /\ Advance
    /\ UNCHANGED <<charSigned, pc, input_buf>>
    /\ UNCHANGED genVars
    /\ UNCHANGED mainVars

\* (c = fgetc(input_file)) == EOF: the loop ends, main writes the
\* boilerplate and calls generate_c_source
ReadEnd ==
    /\ pc = "read"
    /\ ToChar(Fgetc) = EOF
    /\ Advance
    /\ pc' = "gen"
    /\ UNCHANGED <<charSigned, input_buf>>
    /\ UNCHANGED genVars
    /\ UNCHANGED mainVars

(* ---------------- generate_c_source ---------------- *)

input_len == Len(input_buf)

\* the bundling loop with "if" for "while": at most one more command is
\* counted and the scan index stops on it
ScanRunOnce(buf, k, n, c) ==
    [i |-> k + 1, instr_count |-> IF CharAt(buf, k + 1) = c THEN n + 1 ELSE n]

\* instr_count = 1; while (input_buf[++i] == c) ++instr_count;
\* called with k = i and n = 1, gives i and instr_count after the loop
RECURSIVE ScanRun(_, _, _, _)
ScanRun(buf, k, n, c) ==
    IF CharAt(buf, k + 1) = c
    THEN ScanRun(buf, k + 1, n + 1, c)
    ELSE [i |-> k + 1, instr_count |-> n]

\* one of the four bundling cases: c is the command, op the statement
GenRun(c, op) ==
    /\ pc = "gen"
    /\ i < input_len
    /\ CharAt(input_buf, i) = c
    /\ LET r == ScanRun(input_buf, i, 1, c) IN
        /\ out' = Append(out, Stmt(op, r.instr_count))
        /\ i' = r.i
    /\ UNCHANGED <<charSigned, pc>>
    /\ UNCHANGED readVars
    /\ UNCHANGED <<label_count, label_locations, label_stack, oob, ret, err, errpos>>
    /\ UNCHANGED mainVars

\* case '+': tape[ptr] += instr_count
GenAdd == GenRun(PLUS, "add")

\* case '-': tape[ptr] -= instr_count
GenSub == GenRun(MINUS, "sub")

\* case '>': ptr += instr_count
GenRight == GenRun(RIGHT, "right")

\* case '<': ptr -= instr_count
GenLeft == GenRun(LEFT, "left")

\* the two cases that write one fixed statement and step over the command
GenSingle(c, op) ==
    /\ pc = "gen"
    /\ i < input_len
    /\ CharAt(input_buf, i) = c
    /\ out' = Append(out, Stmt(op, 0))
    /\ i' = i + 1
    /\ UNCHANGED <<charSigned, pc>>
    /\ UNCHANGED readVars
    /\ UNCHANGED <<label_count, label_locations, label_stack, oob, ret, err, errpos>>
    /\ UNCHANGED mainVars

\* case '.': putchar(tape[ptr])
GenPutchar == GenSingle(DOT, "putchar")

\* case ',': tape[ptr] = getchar()
GenGetchar == GenSingle(COMMA, "getchar")

\* case '[' with label_count below the array's size: the label is written
\* and its location stored
GenLoopBegin ==
    /\ pc = "gen"
    /\ i < input_len
    /\ CharAt(input_buf, i) = LBRACKET
    /\ ~(label_count > LabelSlots)
    /\ label_count < LabelSlots
    /\ out' = Append(out, Stmt("label", label_count))
    /\ label_locations' = [label_locations EXCEPT ![label_count] = i]
    /\ label_count' = label_count + 1
    /\ i' = i + 1
    /\ UNCHANGED <<charSigned, pc>>
    /\ UNCHANGED readVars
    /\ UNCHANGED <<label_stack, oob, ret, err, errpos>>
    /\ UNCHANGED mainVars

\* case '[' with label_count = 26: the test label_count > 26 lets it pass,
\* the label 'A' + 26 is written and label_locations[26] = i writes past
\* the array.  The write is undefined behaviour; the outcomes modelled are
\*   "pad":   the word after the array is unused, the scan goes on;
\*   "stack": the word after the array is label_stack, the scan goes on;
\*   "abort": the process is killed.
GenLoopBeginPastEnd ==
    /\ pc = "gen"
    /\ i < input_len
    /\ CharAt(input_buf, i) = LBRACKET
    /\ ~(label_count > LabelSlots)
    /\ label_count = LabelSlots
    /\ out' = Append(out, Stmt("label", label_count))
    /\ \E where \in {"pad", "stack", "abort"} :
        /\ oob' = where
        /\ label_locations' =
              IF where = "pad"
              THEN [label_locations EXCEPT ![label_count] = i]
              ELSE label_locations
        /\ label_stack' = IF where = "stack" THEN i ELSE label_stack
        /\ label_count' = IF where = "abort" THEN label_count ELSE label_count + 1
        /\ i' = IF where = "abort" THEN i ELSE i + 1
        /\ pc' = IF where = "abort" THEN "exit" ELSE pc
        /\ exit_status' = IF where = "abort" THEN "killed" ELSE exit_status
    /\ UNCHANGED charSigned
    /\ UNCHANGED readVars
    /\ UNCHANGED <<ret, err, errpos, terminated, gcc_run>>

\* case '[' with label_count > 26: the too-many-loops error
GenTooManyLoops ==
    /\ pc = "gen"
    /\ i < input_len
    /\ CharAt(input_buf, i) = LBRACKET
    /\ label_count > LabelSlots
    /\ err' = "too_many_loops"
    /\ ret' = "-1"
    /\ pc' = "returned"
    /\ UNCHANGED charSigned
    /\ UNCHANGED readVars
    /\ UNCHANGED <<i, label_count, label_locations, label_stack, oob, out, errpos>>
    /\ UNCHANGED mainVars

\* label_locations[k] as the search loop reads it; index 26 is the word
\* after the array, which is label_stack itself in the "stack" layout
LabelAt(k, stack) ==
    IF k = LabelSlots /\ oob = "stack" THEN stack ELSE label_locations[k]

\* for (k = 0; k < label_count; ++k) if (label_locations[k] == j) ...:
\* the label ids a goto is written for, in the order of the loop
MatchingLabels(j, stack) ==
    SelectSeq([n \in 1..label_count |-> n - 1], LAMBDA k : LabelAt(k, stack) = j)

\* for (j = i; j >= 0; --j): the walk back through the source from j with
\* label_stack = stack, having written gotos to the labels in found.
\* The walk does not stop at the first match and label_stack is left as
\* the walk leaves it.
RECURSIVE WalkBack(_, _, _)
WalkBack(j, stack, found) ==
    IF j < 0
    THEN [label_stack |-> stack, gotos |-> found]
    ELSE LET s1 == IF CharAt(input_buf, j) = RBRACKET THEN stack + 1 ELSE stack
             s2 == IF CharAt(input_buf, j) = LBRACKET THEN s1 - 1 ELSE s1
             here == IF CharAt(input_buf, j) = LBRACKET /\ s2 <= 0
                     THEN MatchingLabels(j, s2)
                     ELSE <<>>
         IN WalkBack(j - 1, s2, found \o here)

\* the statements the walk wrote
GotoStmts(labels) == [n \in 1..Len(labels) |-> Stmt("goto", labels[n])]

\* case ']' with label_placed set by the walk
GenLoopEnd ==
    /\ pc = "gen"
    /\ i < input_len
    /\ CharAt(input_buf, i) = RBRACKET
    /\ LET w == WalkBack(i, label_stack, <<>>) IN
        /\ w.gotos /= <<>>
        /\ out' = out \o GotoStmts(w.gotos)
        /\ label_stack' = w.label_stack
    /\ i' = i + 1
    /\ UNCHANGED <<charSigned, pc>>
    /\ UNCHANGED readVars
    /\ UNCHANGED <<label_count, label_locations, oob, ret, err, errpos>>
    /\ UNCHANGED mainVars

\* case ']' with label_placed still 0 after the walk: failed to match
\* loop end at location i
GenLoopEndUnmatched ==
    /\ pc = "gen"
    /\ i < input_len
    /\ CharAt(input_buf, i) = RBRACKET
    /\ LET w == WalkBack(i, label_stack, <<>>) IN
        /\ w.gotos = <<>>
        /\ label_stack' = w.label_stack
    /\ err' = "unmatched_loop_end"
    /\ errpos' = i
    /\ ret' = "-1"
    /\ pc' = "returned"
    /\ UNCHANGED charSigned
    /\ UNCHANGED readVars
    /\ UNCHANGED <<i, label_count, label_locations, oob, out>>
    /\ UNCHANGED mainVars

\* the for loop ends with i >= input_len: return 0
GenFinish ==
    /\ pc = "gen"
    /\ ~(i < input_len)
    /\ ret' = "0"
    /\ pc' = "returned"
    /\ UNCHANGED charSigned
    /\ UNCHANGED readVars
    /\ UNCHANGED <<i, label_count, label_locations, label_stack, oob, out, err, errpos>>
    /\ UNCHANGED mainVars

(* ---------------- main: after generate_c_source ---------------- *)

\* main with the test of generate_c_source's result left out: the
\* terminator is written and gcc is run whatever it returned
MainIgnoresFailure ==
    /\ pc = "returned"
    /\ ret /= "0"
    /\ terminated' = TRUE
    /\ gcc_run' = TRUE
    /\ \E child_status \in {"compiled", "compile_failed"} :
        exit_status' = child_status
    /\ pc' = "exit"
    /\ UNCHANGED charSigned
    /\ UNCHANGED readVars
    /\ UNCHANGED genVars

\* generate_c_source returned nonzero: the file is closed as it is and
\* main returns -1
MainGenFailed ==
    /\ pc = "returned"
    /\ ret /= "0"
    /\ exit_status' = "-1"
    /\ pc' = "exit"
    /\ UNCHANGED charSigned
    /\ UNCHANGED readVars
    /\ UNCHANGED genVars
    /\ UNCHANGED <<terminated, gcc_run>>

\* generate_c_source returned 0: the terminator boilerplate is written,
\* gcc is run on the file and main returns the child's status
MainCompile ==
    /\ pc = "returned"
    /\ ret = "0"
    /\ terminated' = TRUE
    /\ gcc_run' = TRUE
    /\ \E child_status \in {"compiled", "compile_failed"} :
        exit_status' = child_status
    /\ pc' = "exit"
    /\ UNCHANGED charSigned
    /\ UNCHANGED readVars
    /\ UNCHANGED genVars

Next ==
    \/ ReadCommand
    \/ ReadIgnored
    \/ ReadEnd
    \/ GenAdd
    \/ GenSub
    \/ GenRight
    \/ GenLeft
    \/ GenPutchar
    \/ GenGetchar
    \/ GenLoopBegin
    \/ GenLoopBeginPastEnd
    \/ GenTooManyLoops
    \/ GenLoopEnd
    \/ GenLoopEndUnmatched
    \/ GenFinish
    \/ MainGenFailed
    \/ MainCompile

Spec == Init /\ [][Next]_vars


(* ---------------- reference notions the claims are stated with ---------------- *)

CountIn(buf, c, a, b) == Cardinality({k \in a..b : buf[k] = c})

\* nesting depth after the first k commands of buf
Depth(buf, k) == CountIn(buf, LBRACKET, 1, k) - CountIn(buf, RBRACKET, 1, k)

Balanced(buf) ==
    /\ \A k \in 1..Len(buf) : Depth(buf, k) >= 0
    /\ Depth(buf, Len(buf)) = 0

\* the 0-based positions of the ']' that have no enclosing open '['
UnmatchedEnds(buf) == {k - 1 : k \in {n \in 1..Len(buf) : Depth(buf, n) < 0}}

\* the 0-based positions of the '[' that no later ']' closes
UnclosedBegins(buf) ==
    {p - 1 : p \in {n \in 1..Len(buf) :
        /\ buf[n] = LBRACKET
        /\ \A q \in n..Len(buf) :
              CountIn(buf, LBRACKET, n, q) > CountIn(buf, RBRACKET, n, q)}}

Min(S) == CHOOSE x \in S : \A y \in S : x <= y

\* bracket matching with an explicit stack of open labels: the label and
\* goto statements of a correct resolver, labels numbered in order of '['
RECURSIVE StackLoops(_, _, _, _)
StackLoops(buf, k, open, next) ==
    IF k > Len(buf) THEN <<>>
    ELSE IF buf[k] = LBRACKET
         THEN <<Stmt("label", next)>> \o StackLoops(buf, k + 1, <<next>> \o open, next + 1)
    ELSE IF buf[k] = RBRACKET /\ open /= <<>>
         THEN <<Stmt("goto", Head(open))>> \o StackLoops(buf, k + 1, Tail(open), next)
    ELSE StackLoops(buf, k + 1, open, next)

IsLoopStmt(s) == s.op \in {"label", "goto"}

CountedOps == {"add", "sub", "right", "left"}

\* the statement kind each command stands for
OpOf(c) ==
    CASE c = PLUS -> "add"
      [] c = MINUS -> "sub"
      [] c = RIGHT -> "right"
      [] c = LEFT -> "left"
      [] c = DOT -> "putchar"
      [] c = COMMA -> "getchar"
      [] c = LBRACKET -> "label"
      [] c = RBRACKET -> "goto"

\* run-length encoding from the left: a repeatable command that repeats
\* the one before it joins its run, anything else opens a new entry
RECURSIVE Rle(_, _, _)
Rle(buf, k, acc) ==
    IF k > Len(buf) THEN acc
    ELSE IF /\ acc /= <<>>
            /\ OpOf(buf[k]) \in CountedOps
            /\ acc[Len(acc)].op = OpOf(buf[k])
         THEN Rle(buf, k + 1,
                  [acc EXCEPT ![Len(acc)] = Stmt(acc[Len(acc)].op, acc[Len(acc)].arg + 1)])
         ELSE Rle(buf, k + 1, Append(acc, Stmt(OpOf(buf[k]), 1)))

Ops(stmts) == [n \in 1..Len(stmts) |-> stmts[n].op]

IsCounted(s) == s.op \in CountedOps

\* the command a statement undoes to
CommandOf(op) == CHOOSE c \in Commands : OpOf(c) = op

\* the undo of the compressor: a counted statement back into that many
\* unit commands, every other statement into its one command
RECURSIVE Expand(_)
Expand(stmts) ==
    IF stmts = <<>> THEN <<>>
    ELSE (IF IsCounted(Head(stmts))
          THEN Repeat(CommandOf(Head(stmts).op), Head(stmts).arg)
          ELSE <<CommandOf(Head(stmts).op)>>) \o Expand(Tail(stmts))

\* the subsequence of command bytes
Sanitize(bytes) == SelectSeq(bytes, LAMBDA b : b \in Commands)

(* ---------------- claims ---------------- *)

\* C1: for balanced input, every ']' branches to the label of its
\* structurally matching '[' and to no other label: the label and goto
\* statements written are those of stack matching.
C1_BranchesTargetMatchingLabel ==
    (ret = "0" /\ Balanced(input_buf)) =>
        SelectSeq(out, IsLoopStmt) = StackLoops(input_buf, 1, <<>>, 0)

\* C2: when some ']' has no enclosing open '[', generate_c_source
\* returns -1 and reports the position of the first such ']'.
C2_UnmatchedLoopEndFails ==
    (ret /= "none" /\ UnmatchedEnds(input_buf) /= {}) =>
        /\ ret = "-1"
        /\ err = "unmatched_loop_end"
        /\ errpos = Min(UnmatchedEnds(input_buf))

\* C3: when some '[' is still unclosed after the whole stream has been
\* scanned, generate_c_source returns -1, never success.
C3_UnclosedLoopBeginFails ==
    (ret /= "none" /\ UnclosedBegins(input_buf) /= {}) => ret = "-1"

\* C4 as stated: the statements written never hold two adjacent cell-add
\* operations nor two adjacent pointer-move operations.
C4_NoAdjacentSameKind ==
    \A n \in 1..(Len(out) - 1) :
        /\ ~(out[n].op \in {"add", "sub"} /\ out[n + 1].op \in {"add", "sub"})
        /\ ~(out[n].op \in {"right", "left"} /\ out[n + 1].op \in {"right", "left"})

\* C4 as amended: each maximal run of one identical repeatable command
\* gives exactly one counted statement carrying the run's length, so the
\* statements written for the commands scanned so far are their run-length
\* encoding, every count is at least 1, and no two adjacent counted
\* statements are of the same operation.
C4_RunsBundledPerCommand ==
    (pc /= "read") =>
        /\ SelectSeq(out, IsCounted)
              = SelectSeq(Rle(SubSeq(input_buf, 1, i), 1, <<>>), IsCounted)
        /\ \A n \in 1..Len(out) : IsCounted(out[n]) => out[n].arg >= 1
        /\ \A n \in 1..(Len(out) - 1) :
              IsCounted(out[n]) => out[n + 1].op /= out[n].op

\* C4 witness: a run of two or more '+' followed at once by '-' has been
\* compiled, into an add and a sub side by side.
C4_Witness ==
    \E n \in 1..(Len(out) - 1) :
        out[n].op = "add" /\ out[n].arg >= 2 /\ out[n + 1].op = "sub"

\* C5: every '[' gets a label marker together with a test-and-branch that
\* jumps past the matching ']' when the current cell is zero.
C5_LoopBeginTestsCell ==
    (ret = "0") =>
        \A n \in 1..Len(out) :
            out[n].op = "label" =>
                n < Len(out) /\ out[n + 1].op = "ifzero_goto_end"

\* C6 as stated: when generation fails nothing has been written to the
\* output sink.
C6_NoOutputBeforeFailure ==
    (ret = "-1") => out = <<>>

IsNotGoto(s) == s.op /= "goto"

\* C6 as amended: when generation fails, the statements for the commands
\* before the offending one (at index i) have already been written, but
\* main stops with status -1 without writing the terminator boilerplate
\* and without running gcc on the partial output.
C6_FailureIsNeverCompiled ==
    (ret = "-1") =>
        /\ Ops(SelectSeq(out, IsNotGoto))
              = Ops(SelectSeq(Rle(SubSeq(input_buf, 1, i), 1, <<>>), IsNotGoto))
        /\ ~terminated
        /\ ~gcc_run
        /\ (pc = "exit" => exit_status = "-1")

\* C6 witness: main has exited after a failed unmatched-']' generation
\* that had already written statements.
C6_Witness ==
    /\ pc = "exit"
    /\ ret = "-1"
    /\ err = "unmatched_loop_end"
    /\ out /= <<>>

\* C7: on success there is, in input order, exactly one statement per
\* compressed instruction: one per maximal run, one per '.', ',', '[' and
\* exactly one conditional branch per ']'.
C7_OneStatementPerInstruction ==
    (ret = "0") => Ops(out) = Ops(Rle(input_buf, 1, <<>>))

\* C8: round trip: expanding the statements written back into unit
\* commands reproduces the sanitized input.
C8_RoundTrip ==
    (ret = "0") => Expand(out) = input_buf

\* C9: the read loop keeps exactly the command bytes of the input file,
\* in order, whatever the other bytes are.
C9_SanitizerKeepsEveryCommand ==
    (pc /= "read") => input_buf = Sanitize(file)

\* C10: at most 26 labels: no write to label_locations falls outside
\* 0..25, every label written is one of loopA..loopZ, and a 27th '['
\* is refused before anything is written or stored for it.
C10_AtMost26Labels ==
    /\ oob = "none"
    /\ label_count <= LabelSlots
    /\ \A n \in 1..Len(out) : out[n].op = "label" => out[n].arg \in 0..(LabelSlots - 1)
    /\ (/\ pc \in {"returned", "exit"}
        /\ i < Len(input_buf)
        /\ input_buf[i + 1] = LBRACKET
        /\ CountIn(input_buf, LBRACKET, 1, i + 1) > LabelSlots)
          => err = "too_many_loops"

====
